---- MODULE Spec2Model ----
(***************************************************************************)
(* Model of neural-classy/main.py: a linear script that reads              *)
(* assignment_data.csv with pandas, prints it, splits it by the label      *)
(* column y, prints rows 0, 1, 2 of the negative split and plots row 0.    *)
(*                                                                         *)
(* Cell values are held in tenths (0.4 is 4, the label 1 is 10), so that   *)
(* the cells of the data are integers.  A cell pandas fills in for a       *)
(* missing trailing field is NaN.                                          *)
(***************************************************************************)
EXTENDS Integers, Sequences, FiniteSets, TLC

VARIABLES file, pc, err, df, seizure_positive, seizure_negative, out, ax

vars == <<file, pc, err, df, seizure_positive, seizure_negative, out, ax>>

\* Largest number of data lines of the enumerated input files.
MaxRows == 4

\* The value pandas stores for a field the line does not have.
NaN == 0 - 1

\* Label cells (0, 1 and the out-of-contract 2) and feature cells, in tenths.
Labels == {0, 10, 20}
Features == {4, 7}

(***************************************************************************)
(* The input file: whether it exists, its header line, its data lines.     *)
(***************************************************************************)
Header == <<"y", "f0">>

GoodLine == {<<y, f>> : y \in Labels, f \in Features}

SeqsUpTo(S, n) == UNION {[1..k -> S] : k \in 0..n}

\* Line k of ls loses its last field.
Shorten(ls, k) == [ls EXCEPT ![k] = SubSeq(ls[k], 1, Len(ls[k]) - 1)]

\* Line k of ls gets one more field.
Lengthen(ls, k) == [ls EXCEPT ![k] = Append(ls[k], ls[k][Len(ls[k])])]

\* Well-formed files, files with one line short of a field, and files with
\* one line (not the first data line, which pandas would read as carrying an
\* index column) longer than the header.
GenericLines ==
  LET good == SeqsUpTo(GoodLine, MaxRows)
  IN  good
      \cup {Shorten(ls, k) : <<ls, k>> \in
              {p \in good \X (1..MaxRows) : p[2] <= Len(p[1])}}
      \cup {Lengthen(ls, k) : <<ls, k>> \in
              {p \in good \X (2..MaxRows) : p[2] <= Len(p[1])}}

\* The rows of the end-to-end scenario: y,f0,f1,f2.
ScenarioHeader == <<"y", "f0", "f1", "f2">>
ScenarioRows == << <<10, 1, 2, 3>>, <<0, 4, 5, 6>>, <<0, 7, 8, 9>>,
                   <<0, 10, 11, 12>> >>
ScenarioFile == [exists |-> TRUE, header |-> ScenarioHeader,
                 lines |-> ScenarioRows]

\* The scenario's rows in every order.
Perms == {p \in [1..4 -> 1..4] : \A i, j \in 1..4 : i # j => p[i] # p[j]}
ScenarioFiles == {[exists |-> TRUE, header |-> ScenarioHeader,
                   lines |-> [i \in 1..4 |-> ScenarioRows[p[i]]]] : p \in Perms}

MissingFile == [exists |-> FALSE, header |-> <<>>, lines |-> <<>>]

Files == {[exists |-> TRUE, header |-> Header, lines |-> ls] : ls \in GenericLines}
         \cup ScenarioFiles \cup {MissingFile}

(***************************************************************************)
(* pandas.read_csv                                                         *)
(***************************************************************************)
\* The C tokenizer rejects a data line with more fields than expected.
TooManyFields(f) == \E k \in 1..Len(f.lines) : Len(f.lines[k]) > Len(f.header)

\* A line with fewer fields is padded with NaN.
Pad(line, n) == [i \in 1..n |-> IF i <= Len(line) THEN line[i] ELSE NaN]

\* The frame read_csv builds: the header as columns, a RangeIndex 0..n-1.
read_csv(f) ==
  [columns |-> f.header,
   rows |-> [k \in 1..Len(f.lines) |->
               [idx |-> k - 1, vals |-> Pad(f.lines[k], Len(f.header))]]]

EmptyFrame == [columns |-> <<>>, rows |-> <<>>]

(***************************************************************************)
(* DataFrame.query, .loc                                                   *)
(***************************************************************************)
ColPos(columns, name) == CHOOSE i \in 1..Len(columns) : columns[i] = name

Y(d, r) == r.vals[ColPos(d.columns, "y")]

\* A wrong comparison: every row with y at least v.
queryAtLeast(d, v) ==
  [columns |-> d.columns,
   rows |-> SelectSeq(d.rows, LAMBDA r : Y(d, r) >= v)]

\* A wrong order: the matching rows, last first.
queryReversed(d, v) ==
  LET s == SelectSeq(d.rows, LAMBDA r : Y(d, r) = v)
  IN  [columns |-> d.columns,
       rows |-> [i \in 1..Len(s) |-> s[Len(s) + 1 - i]]]

\* df.query('y == v'): the rows whose y equals v, index labels kept.
query(d, v) ==
  [columns |-> d.columns,
   rows |-> SelectSeq(d.rows, LAMBDA r : Y(d, r) = v)]

IndexLabels(d) == {d.rows[i].idx : i \in 1..Len(d.rows)}

RowAt(d, label) == d.rows[CHOOSE i \in 1..Len(d.rows) : d.rows[i].idx = label]

Raised == [raised |-> TRUE, value |-> <<>>]
Returned(v) == [raised |-> FALSE, value |-> v]

\* Selection by position instead of by index label.
ilocList(d, labels) ==
  IF \E i \in 1..Len(labels) : labels[i] >= Len(d.rows)
    THEN Raised
    ELSE Returned([columns |-> d.columns,
                   rows |-> [i \in 1..Len(labels) |-> d.rows[labels[i] + 1]]])

\* .loc[[l1, l2, ...]]: the rows with these index labels, in the order asked;
\* KeyError when a label is not in the index.
locList(d, labels) ==
  IF \E i \in 1..Len(labels) : labels[i] \notin IndexLabels(d)
    THEN Raised
    ELSE Returned([columns |-> d.columns,
                   rows |-> [i \in 1..Len(labels) |-> RowAt(d, labels[i])]])

Series(d, r) == [index |-> d.columns, values |-> r.vals, name |-> r.idx]

\* The row after the one asked for.
locNext(d, label) ==
  IF label \notin IndexLabels(d)
    THEN Raised
    ELSE Returned(Series(d, RowAt(d, IF label + 1 \in IndexLabels(d)
                                       THEN label + 1 ELSE label)))

\* .loc[l]: the row with index label l as a Series over the column names;
\* KeyError when the label is not in the index.
loc(d, label) ==
  IF label \notin IndexLabels(d)
    THEN Raised
    ELSE Returned(Series(d, RowAt(d, label)))

(***************************************************************************)
(* print, Axes.plot, Axes.set                                              *)
(***************************************************************************)
\* What print shows of a frame: every row, its index label and its cells.
Printed(d) == d.rows

\* matplotlib maps string x values to 0, 1, ... in order of first appearance.
CategoryPosition(names, i) ==
  Cardinality({names[j] : j \in 1..(CHOOSE m \in 1..i : names[m] = names[i] /\
                 \A n \in 1..(m - 1) : names[n] # names[i])}) - 1

\* The label cell left out of the series.
plotFeaturesOnly(s) ==
  [xdata |-> [i \in 1..(Len(s.index) - 1) |-> i - 1],
   ydata |-> [i \in 1..(Len(s.values) - 1) |-> s.values[i + 1]],
   name |-> s.name]

\* ax.plot(series): x is the series index, y its values.
plot(s) ==
  [xdata |-> [i \in 1..Len(s.index) |-> CategoryPosition(s.index, i)],
   ydata |-> s.values,
   name |-> s.name]

NoAxes == [created |-> FALSE, lines |-> <<>>, title |-> "", xticks |-> <<>>,
           xlabel |-> "", ylabel |-> ""]

(***************************************************************************)
(* The script, one action per statement.                                   *)
(***************************************************************************)
Init ==
  /\ file \in Files
  /\ pc = "L7"
  /\ err = "none"
  /\ df = EmptyFrame
  /\ seizure_positive = EmptyFrame
  /\ seizure_negative = EmptyFrame
  /\ out = <<>>
  /\ ax = NoAxes

Raise(e) == pc' = "failed" /\ err' = e

\* line 7: df = pd.read_csv('assignment_data.csv')
Load ==
  /\ pc = "L7"
  /\ IF ~file.exists
       THEN Raise("FileNotFoundError") /\ UNCHANGED df
     ELSE IF TooManyFields(file)
       THEN Raise("ParserError") /\ UNCHANGED df
     ELSE pc' = "L9" /\ df' = read_csv(file) /\ UNCHANGED err
  /\ UNCHANGED <<file, seizure_positive, seizure_negative, out, ax>>

\* line 9: print(df)
PrintDf ==
  /\ pc = "L9"
  /\ out' = Append(out, Printed(df))
  /\ pc' = "L11"
  /\ UNCHANGED <<file, err, df, seizure_positive, seizure_negative, ax>>

\* line 11: seizure_positive = df.query('y == 1')
QueryPositive ==
  /\ pc = "L11"
  /\ seizure_positive' = query(df, 10)
  /\ pc' = "L12"
  /\ UNCHANGED <<file, err, df, seizure_negative, out, ax>>

\* The frame filtered in place.
QueryNegativeInPlace ==
  /\ pc = "L12"
  /\ seizure_negative' = query(df, 0)
  /\ df' = query(df, 0)
  /\ pc' = "L15"
  /\ UNCHANGED <<file, err, seizure_positive, out, ax>>

\* line 12: seizure_negative = df.query('y == 0')
QueryNegative ==
  /\ pc = "L12"
  /\ seizure_negative' = query(df, 0)
  /\ pc' = "L15"
  /\ UNCHANGED <<file, err, df, seizure_positive, out, ax>>

\* line 15: print(seizure_negative.loc[[0, 1, 2]])
PrintSelection ==
  /\ pc = "L15"
  /\ LET sel == locList(seizure_negative, <<0, 1, 2>>)
     IN  IF sel.raised
           THEN Raise("KeyError") /\ UNCHANGED out
         ELSE /\ out' = Append(out, Printed(sel.value))
              /\ pc' = "L17"
              /\ UNCHANGED err
  /\ UNCHANGED <<file, df, seizure_positive, seizure_negative, ax>>

\* line 17: fig, ax = plt.subplots()
Subplots ==
  /\ pc = "L17"
  /\ ax' = [NoAxes EXCEPT !.created = TRUE]
  /\ pc' = "L19"
  /\ UNCHANGED <<file, err, df, seizure_positive, seizure_negative, out>>

\* line 19: ax.plot(seizure_negative.loc[0])
Plot ==
  /\ pc = "L19"
  /\ LET row == loc(seizure_negative, 0)
     IN  IF row.raised
           THEN Raise("KeyError") /\ UNCHANGED ax
         ELSE /\ ax' = [ax EXCEPT !.lines = Append(@, plot(row.value))]
              /\ pc' = "L21"
              /\ UNCHANGED err
  /\ UNCHANGED <<file, df, seizure_positive, seizure_negative, out>>

\* lines 21-26: ax.set(title=..., xticks=..., xlabel=..., ylabel=...)
SetAxes ==
  /\ pc = "L21"
  /\ ax' = [ax EXCEPT !.title = "Seizure positive vs negative",
                      !.xticks = [i \in 1..30 |-> (i - 1) * 100],
                      !.xlabel = "milliseconds",
                      !.ylabel = "I don't know"]
  /\ pc' = "done"
  /\ UNCHANGED <<file, err, df, seizure_positive, seizure_negative, out>>

Next ==
  \/ Load
  \/ PrintDf
  \/ QueryPositive
  \/ QueryNegative
  \/ PrintSelection
  \/ Subplots
  \/ Plot
  \/ SetAxes

Spec == Init /\ [][Next]_vars

(***************************************************************************)
(* Positions of the run                                                    *)
(***************************************************************************)
LoadFailed == pc = "failed" /\ err \in {"FileNotFoundError", "ParserError"}
SelectionFailed == pc = "failed" /\ err = "KeyError"

\* Line 7 has returned a frame.
Loaded == pc # "L7" /\ ~LoadFailed

\* Lines 11 and 12 have run.
Partitioned == Loaded /\ pc \notin {"L9", "L11", "L12"}

\* Line 15 has run, to its end or to its exception.
SelectionTried == Partitioned /\ pc # "L15"

\* Line 19 has added the series to the axes.
Plotted == Len(ax.lines) >= 1

Rows(d) == {d.rows[i] : i \in 1..Len(d.rows)}
Count(d, r) == Cardinality({i \in 1..Len(d.rows) : d.rows[i] = r})
Position(d, r) == CHOOSE i \in 1..Len(d.rows) : d.rows[i] = r

ValidInput == \A r \in Rows(df) : Y(df, r) \in {0, 10}

(***************************************************************************)
(* C1: for a valid dataset (every y is 0 or 1) the positive and negative   *)
(* frames partition it: every row of the dataset is in exactly one of      *)
(* them, once, and they hold no other row.                                 *)
(***************************************************************************)
C1_Partition ==
  (Partitioned /\ ValidInput) =>
    /\ \A r \in Rows(df) :
         Count(seizure_positive, r) + Count(seizure_negative, r) = 1
    /\ Rows(seizure_positive) \cup Rows(seizure_negative) = Rows(df)
    /\ Rows(seizure_positive) \cap Rows(seizure_negative) = {}

C1_Witness ==
  /\ Partitioned /\ ValidInput
  /\ Len(seizure_positive.rows) >= 2
  /\ Len(seizure_negative.rows) >= 2

(***************************************************************************)
(* C2 (as stated): with at least 3 negative rows, wherever they sit, the   *)
(* selection of [0,1,2] succeeds and is the first three rows of negative.  *)
(***************************************************************************)
C2_SelectsFirstThree ==
  (SelectionTried /\ Len(seizure_negative.rows) >= 3) =>
    /\ ~SelectionFailed
    /\ Len(out) >= 2
    /\ out[2] = SubSeq(seizure_negative.rows, 1, 3)

(***************************************************************************)
(* C3 (as stated): the selection of [0,1,2] raises exactly when one of     *)
(* the requested indices is >= the length of the negative partition.       *)
(***************************************************************************)
C3_RaisesIffOutOfRange ==
  SelectionTried =>
    (SelectionFailed <=> \E i \in {0, 1, 2} : i >= Len(seizure_negative.rows))

(***************************************************************************)
(* C4 (as stated): on the scenario file the run completes, positive has 1  *)
(* row and negative 3, the selection is the three negative rows in order   *)
(* and the plotted series is [0.4, 0.5, 0.6].                              *)
(***************************************************************************)
C4_Scenario ==
  (file = ScenarioFile /\ pc \in {"done", "failed"}) =>
    /\ pc = "done"
    /\ Len(seizure_positive.rows) = 1
    /\ Len(seizure_negative.rows) = 3
    /\ Len(out) = 2
    /\ out[2] = seizure_negative.rows
    /\ Len(ax.lines) = 1
    /\ ax.lines[1].ydata = <<4, 5, 6>>

(***************************************************************************)
(* C5: each of positive (value 1) and negative (value 0) holds exactly the *)
(* rows of the dataset whose y is that value, each once, in the dataset's  *)
(* relative order.                                                         *)
(***************************************************************************)
IsFiltered(p, v) ==
  /\ Rows(p) \subseteq Rows(df)
  /\ \A r \in Rows(df) : Count(p, r) = IF Y(df, r) = v THEN 1 ELSE 0
  /\ \A i, j \in 1..Len(p.rows) :
       i < j => Position(df, p.rows[i]) < Position(df, p.rows[j])

C5_OrderPreservingFilter ==
  Partitioned => IsFiltered(seizure_positive, 10) /\ IsFiltered(seizure_negative, 0)

C5_Witness ==
  /\ Partitioned
  /\ Len(seizure_negative.rows) >= 2
  /\ Len(seizure_positive.rows) >= 1
  /\ \E i, j, k \in 1..Len(df.rows) :
       /\ i < j /\ j < k
       /\ Y(df, df.rows[i]) = 0 /\ Y(df, df.rows[j]) = 10 /\ Y(df, df.rows[k]) = 0

(***************************************************************************)
(* C6 (as stated): a missing file ends the run in FileNotFoundError, a     *)
(* file with inconsistent column counts ends it in ParserError, and after  *)
(* a failure nothing later has run: a load failure has printed nothing and *)
(* made no axes, a selection failure has plotted nothing.                  *)
(***************************************************************************)
InconsistentColumns(f) ==
  f.exists /\ \E k \in 1..Len(f.lines) : Len(f.lines[k]) # Len(f.header)

C6_FailuresAreFatal ==
  pc # "L7" =>
    /\ ~file.exists => (pc = "failed" /\ err = "FileNotFoundError")
    /\ InconsistentColumns(file) => (pc = "failed" /\ err = "ParserError")
    /\ LoadFailed => (out = <<>> /\ ax = NoAxes)
    /\ SelectionFailed => ~Plotted

(***************************************************************************)
(* C7: the plotted series of a row of N cells has N points, x-coordinates  *)
(* 0..N-1 and the row's cells, unchanged and in order, as y-coordinates.   *)
(***************************************************************************)
C7_SeriesOfRow ==
  Plotted =>
    LET l == ax.lines[1]
        r == RowAt(df, l.name)
        N == Len(r.vals)
    IN  /\ Len(l.xdata) = N
        /\ Len(l.ydata) = N
        /\ \A i \in 1..N : l.xdata[i] = i - 1 /\ l.ydata[i] = r.vals[i]

C7_Witness == Plotted /\ Len(df.columns) = 4 /\ pc = "done"

(***************************************************************************)
(* C8: after load no step changes the dataset, and no step other than the  *)
(* one that builds a partition changes that partition.                     *)
(***************************************************************************)
C8_DatasetImmutable ==
  [][/\ pc # "L7" => df' = df
     /\ pc # "L11" => seizure_positive' = seizure_positive
     /\ pc # "L12" => seizure_negative' = seizure_negative]_vars

C8_Witness ==
  /\ pc = "done"
  /\ Len(df.rows) > Len(seizure_negative.rows)
  /\ Len(seizure_positive.rows) >= 1

FirstThreeNegative ==
  Len(df.rows) >= 3 /\ \A k \in 1..3 : Y(df, df.rows[k]) = 0

====
